---- MODULE Spec2Model ----
(***************************************************************************)
(* Model of src/create-prompt/index.ts: the event-context validator        *)
(* (prepareContext), the classifier (getEventTypeAndContext), the tool     *)
(* permission builders, the prompt synthesizer (generatePrompt) and the    *)
(* orchestrator (createPrompt).                                            *)
(*                                                                         *)
(* A JavaScript string is a sequence of tokens (<<>> is the empty string,  *)
(* template literals and joins are concatenations).  A value that may be   *)
(* undefined/null is wrapped: Undefined or Def(s).  An object is a         *)
(* function from its keys, so that "the key is attached" is k \in DOMAIN.  *)
(***************************************************************************)
EXTENDS Integers, Sequences, FiniteSets, TLC

VARIABLES
    raw,          \* createPrompt's arguments: context, claudeCommentId, branches
    pc,           \* position inside createPrompt
    prepared,     \* preparedContext (Undefined before prepareContext returned)
    prompt,       \* promptContent (Undefined before generatePrompt returned)
    dir,          \* TRUE when /tmp/claude-prompts was created by this run
    file,         \* /tmp/claude-prompts/claude-prompt.txt as this run left it
    env,          \* variables exported through core.exportVariable
    failed,       \* message given to core.setFailed (Undefined when not called)
    exitCode      \* status given to process.exit (Undefined while running)

vars == <<raw, pc, prepared, prompt, dir, file, env, failed, exitCode>>

----------------------------------------------------------------------------
(* Bounds of the enumerated inputs *)

MaxBodyLen == 2        \* tokens in a comment / review body
MaxOverrideLen == 1    \* tokens in the allowed_tools input

----------------------------------------------------------------------------
(* JavaScript values *)

Undefined == [def |-> FALSE]
Def(s) == [def |-> TRUE, v |-> s]

\* JavaScript truthiness of an optional string: defined and not "".
Truthy(x) == x.def /\ x.v # <<>>

\* a ?? b
Nullish(x, d) == IF x.def THEN x ELSE Def(d)

\* `${x}` inside a template literal
Render(x) == IF x.def THEN x.v ELSE <<"undefined">>

EmptyObject == [k \in {} |-> Undefined]

\* ...(x && { k: x })
Spread(k, x) == IF Truthy(x) THEN (k :> x) ELSE EmptyObject

\* o.k where the key may be missing
Get(o, k) == IF k \in DOMAIN o THEN o[k] ELSE Undefined

DigitChars == <<"0", "1", "2", "3", "4", "5", "6", "7", "8", "9">>

RECURSIVE NumberToString(_)
\* Number.prototype.toString() of a non-negative integer
NumberToString(n) ==
    IF n < 10 THEN <<DigitChars[n + 1]>>
    ELSE NumberToString(n \div 10) \o <<DigitChars[(n % 10) + 1]>>

RECURSIVE Join(_)
\* Array.prototype.join(",") of an array of one-token strings
Join(arr) ==
    IF arr = <<>> THEN <<>>
    ELSE IF Len(arr) = 1 THEN <<arr[1]>>
    ELSE <<arr[1], ",">> \o Join(Tail(arr))

SeqsUpTo(S, n) == UNION {[1..k -> S] : k \in 0..n}

----------------------------------------------------------------------------
(* Tool permission builders *)

BASE_ALLOWED_TOOLS ==
    <<"Edit", "Glob", "Grep", "LS", "Read", "Write",
      "mcp__github_file_ops__commit_files",
      "mcp__github_file_ops__delete_files">>

DISALLOWED_TOOLS == <<"WebSearch", "WebFetch">>

UpdatePRComment == "mcp__github_file_ops__update_pull_request_comment"
UpdateIssueComment == "mcp__github_file_ops__update_issue_comment"

\* A builder that grants the issue-comment tool whatever the event is.
buildAllowedToolsString_AlwaysIssueTool(eventData, customAllowedTools) ==
    LET allAllowedTools == Join(Append(BASE_ALLOWED_TOOLS, UpdateIssueComment))
    IN  IF Truthy(customAllowedTools)
        THEN allAllowedTools \o <<",">> \o customAllowedTools.v
        ELSE allAllowedTools

buildAllowedToolsString(eventData, customAllowedTools) ==
    LET baseTools ==
            IF eventData.eventName = "pull_request_review_comment"
            THEN Append(BASE_ALLOWED_TOOLS, UpdatePRComment)
            ELSE Append(BASE_ALLOWED_TOOLS, UpdateIssueComment)
        allAllowedTools == Join(baseTools)
    IN  IF Truthy(customAllowedTools)
        THEN allAllowedTools \o <<",">> \o customAllowedTools.v
        ELSE allAllowedTools

buildDisallowedToolsString(customDisallowedTools) ==
    LET allDisallowedTools == Join(DISALLOWED_TOOLS)
    IN  IF Truthy(customDisallowedTools)
        THEN allDisallowedTools \o <<",">> \o customDisallowedTools.v
        ELSE allDisallowedTools

----------------------------------------------------------------------------
(* Payload type guards of ../github/context *)

isIssueCommentEvent(context) == context.payload.shape = "issue_comment"
isPullRequestReviewEvent(context) == context.payload.shape = "pull_request_review"
isPullRequestReviewCommentEvent(context) ==
    context.payload.shape = "pull_request_review_comment"
isIssuesEvent(context) == context.payload.shape = "issues"

----------------------------------------------------------------------------
(* prepareContext *)

Ok(value) == [ok |-> TRUE, value |-> value]
Throw(message) == [ok |-> FALSE, error |-> message]

\* Lines 86-108: the locals read from the context before the switch.
ExtractLocals(context, defaultBranch, claudeBranch) ==
    LET isPR == context.isPR
        p == context.payload
    IN  [ eventAction |-> context.eventAction,
          assigneeTrigger |-> context.inputs.assigneeTrigger,
          isPR |-> isPR,
          prNumber |-> IF isPR THEN Def(NumberToString(context.entityNumber)) ELSE Undefined,
          issueNumber |-> IF ~isPR THEN Def(NumberToString(context.entityNumber)) ELSE Undefined,
          defaultBranch |-> defaultBranch,
          claudeBranch |-> claudeBranch,
          commentId |->
              IF isIssueCommentEvent(context) THEN Def(NumberToString(p.comment.id))
              ELSE IF isPullRequestReviewEvent(context) THEN Undefined
              ELSE IF isPullRequestReviewCommentEvent(context)
                   THEN Def(NumberToString(p.comment.id))
              ELSE Undefined,
          commentBody |->
              IF isIssueCommentEvent(context) THEN p.comment.body
              ELSE IF isPullRequestReviewEvent(context) THEN Nullish(p.review.body, <<>>)
              ELSE IF isPullRequestReviewCommentEvent(context) THEN p.comment.body
              ELSE Undefined,
          triggerUsername |->
              IF isIssueCommentEvent(context) THEN p.comment.user
              ELSE IF isPullRequestReviewEvent(context) THEN p.review.user
              ELSE IF isPullRequestReviewCommentEvent(context) THEN p.comment.user
              ELSE IF isIssuesEvent(context) THEN p.issue.user
              ELSE Undefined ]

\* Lines 110-121
CommonFieldsOf(context, claudeCommentId, l) ==
    [ repository |-> Def(context.repository),
      claudeCommentId |-> Def(claudeCommentId),
      triggerPhrase |-> IF Truthy(context.inputs.triggerPhrase)
                        THEN context.inputs.triggerPhrase
                        ELSE Def(<<"@claude">>) ]
    @@ Spread("triggerUsername", l.triggerUsername)
    @@ Spread("customInstructions", context.inputs.customInstructions)
    @@ Spread("allowedTools", context.inputs.allowedTools)
    @@ Spread("disallowedTools", context.inputs.disallowedTools)
    @@ Spread("directPrompt", context.inputs.directPrompt)
    @@ Spread("claudeBranch", l.claudeBranch)

\* case "pull_request_review_comment"
ReviewCommentCase(l) ==
    IF ~Truthy(l.prNumber)
    THEN Throw(<<"PR_NUMBER is required for pull_request_review_comment event">>)
    ELSE IF ~l.isPR
    THEN Throw(<<"IS_PR must be true for pull_request_review_comment event">>)
    ELSE IF ~Truthy(l.commentBody)
    THEN Throw(<<"COMMENT_BODY is required for pull_request_review_comment event">>)
    ELSE Ok([ eventName |-> "pull_request_review_comment",
              isPR |-> TRUE,
              prNumber |-> l.prNumber,
              commentBody |-> l.commentBody ]
            @@ Spread("commentId", l.commentId)
            @@ Spread("claudeBranch", l.claudeBranch)
            @@ Spread("defaultBranch", l.defaultBranch))

\* case "pull_request_review"
ReviewCase(l) ==
    IF ~Truthy(l.prNumber)
    THEN Throw(<<"PR_NUMBER is required for pull_request_review event">>)
    ELSE IF ~l.isPR
    THEN Throw(<<"IS_PR must be true for pull_request_review event">>)
    ELSE IF ~Truthy(l.commentBody)
    THEN Throw(<<"COMMENT_BODY is required for pull_request_review event">>)
    ELSE Ok([ eventName |-> "pull_request_review",
              isPR |-> TRUE,
              prNumber |-> l.prNumber,
              commentBody |-> l.commentBody ]
            @@ Spread("claudeBranch", l.claudeBranch)
            @@ Spread("defaultBranch", l.defaultBranch))

\* An issue_comment branch that checks the default branch before the working
\* branch.
IssueCommentCase_BranchOrderSwapped(l) ==
    IF ~Truthy(l.commentId)
    THEN Throw(<<"COMMENT_ID is required for issue_comment event">>)
    ELSE IF ~Truthy(l.commentBody)
    THEN Throw(<<"COMMENT_BODY is required for issue_comment event">>)
    ELSE IF l.isPR
    THEN IF ~Truthy(l.prNumber)
         THEN Throw(<<"PR_NUMBER is required for issue_comment event for PRs">>)
         ELSE Ok([ eventName |-> "issue_comment",
                   commentId |-> l.commentId,
                   isPR |-> TRUE,
                   prNumber |-> l.prNumber,
                   commentBody |-> l.commentBody ]
                 @@ Spread("claudeBranch", l.claudeBranch)
                 @@ Spread("defaultBranch", l.defaultBranch))
    ELSE IF ~Truthy(l.defaultBranch)
    THEN Throw(<<"DEFAULT_BRANCH is required for issue_comment event">>)
    ELSE IF ~Truthy(l.claudeBranch)
    THEN Throw(<<"CLAUDE_BRANCH is required for issue_comment event">>)
    ELSE IF ~Truthy(l.issueNumber)
    THEN Throw(<<"ISSUE_NUMBER is required for issue_comment event for issues">>)
    ELSE Ok([ eventName |-> "issue_comment",
              commentId |-> l.commentId,
              isPR |-> FALSE,
              claudeBranch |-> l.claudeBranch,
              defaultBranch |-> l.defaultBranch,
              issueNumber |-> l.issueNumber,
              commentBody |-> l.commentBody ])

\* case "issue_comment"
IssueCommentCase(l) ==
    IF ~Truthy(l.commentId)
    THEN Throw(<<"COMMENT_ID is required for issue_comment event">>)
    ELSE IF ~Truthy(l.commentBody)
    THEN Throw(<<"COMMENT_BODY is required for issue_comment event">>)
    ELSE IF l.isPR
    THEN IF ~Truthy(l.prNumber)
         THEN Throw(<<"PR_NUMBER is required for issue_comment event for PRs">>)
         ELSE Ok([ eventName |-> "issue_comment",
                   commentId |-> l.commentId,
                   isPR |-> TRUE,
                   prNumber |-> l.prNumber,
                   commentBody |-> l.commentBody ]
                 @@ Spread("claudeBranch", l.claudeBranch)
                 @@ Spread("defaultBranch", l.defaultBranch))
    ELSE IF ~Truthy(l.claudeBranch)
    THEN Throw(<<"CLAUDE_BRANCH is required for issue_comment event">>)
    ELSE IF ~Truthy(l.defaultBranch)
    THEN Throw(<<"DEFAULT_BRANCH is required for issue_comment event">>)
    ELSE IF ~Truthy(l.issueNumber)
    THEN Throw(<<"ISSUE_NUMBER is required for issue_comment event for issues">>)
    ELSE Ok([ eventName |-> "issue_comment",
              commentId |-> l.commentId,
              isPR |-> FALSE,
              claudeBranch |-> l.claudeBranch,
              defaultBranch |-> l.defaultBranch,
              issueNumber |-> l.issueNumber,
              commentBody |-> l.commentBody ])

\* An assigned branch that forgets to require the assignee trigger.
AssignedVariant_NoCheck(l) ==
    Ok([ eventName |-> "issues",
         eventAction |-> Def(<<"assigned">>),
         isPR |-> FALSE,
         issueNumber |-> l.issueNumber,
         defaultBranch |-> l.defaultBranch,
         claudeBranch |-> l.claudeBranch,
         assigneeTrigger |-> l.assigneeTrigger ])

\* Lines 238-252: eventAction === "assigned"
AssignedVariant(l) ==
    IF ~Truthy(l.assigneeTrigger)
    THEN Throw(<<"ASSIGNEE_TRIGGER is required for issue assigned event">>)
    ELSE Ok([ eventName |-> "issues",
              eventAction |-> Def(<<"assigned">>),
              isPR |-> FALSE,
              issueNumber |-> l.issueNumber,
              defaultBranch |-> l.defaultBranch,
              claudeBranch |-> l.claudeBranch,
              assigneeTrigger |-> l.assigneeTrigger ])

\* case "issues"
IssuesCase(l) ==
    IF ~Truthy(l.eventAction)
    THEN Throw(<<"GITHUB_EVENT_ACTION is required for issues event">>)
    ELSE IF ~Truthy(l.issueNumber)
    THEN Throw(<<"ISSUE_NUMBER is required for issues event">>)
    ELSE IF l.isPR
    THEN Throw(<<"IS_PR must be false for issues event">>)
    ELSE IF ~Truthy(l.defaultBranch)
    THEN Throw(<<"DEFAULT_BRANCH is required for issues event">>)
    ELSE IF ~Truthy(l.claudeBranch)
    THEN Throw(<<"CLAUDE_BRANCH is required for issues event">>)
    ELSE IF l.eventAction.v = <<"assigned">>
    THEN AssignedVariant(l)
    ELSE IF l.eventAction.v = <<"opened">>
    THEN Ok([ eventName |-> "issues",
              eventAction |-> Def(<<"opened">>),
              isPR |-> FALSE,
              issueNumber |-> l.issueNumber,
              defaultBranch |-> l.defaultBranch,
              claudeBranch |-> l.claudeBranch ])
    ELSE Throw(<<"Unsupported issue action: ">> \o l.eventAction.v)

\* A pull_request branch that validates nothing.
PullRequestCase_NoChecks(l) ==
    Ok([ eventName |-> "pull_request",
         eventAction |-> l.eventAction,
         isPR |-> TRUE,
         prNumber |-> l.prNumber ]
       @@ Spread("claudeBranch", l.claudeBranch)
       @@ Spread("defaultBranch", l.defaultBranch))

\* case "pull_request"
PullRequestCase(l) ==
    IF ~Truthy(l.prNumber)
    THEN Throw(<<"PR_NUMBER is required for pull_request event">>)
    ELSE IF ~l.isPR
    THEN Throw(<<"IS_PR must be true for pull_request event">>)
    ELSE Ok([ eventName |-> "pull_request",
              eventAction |-> l.eventAction,
              isPR |-> TRUE,
              prNumber |-> l.prNumber ]
            @@ Spread("claudeBranch", l.claudeBranch)
            @@ Spread("defaultBranch", l.defaultBranch))

\* switch (eventName)
ParseEventData(eventName, l) ==
    CASE eventName = "pull_request_review_comment" -> ReviewCommentCase(l)
      [] eventName = "pull_request_review" -> ReviewCase(l)
      [] eventName = "issue_comment" -> IssueCommentCase(l)
      [] eventName = "issues" -> IssuesCase(l)
      [] eventName = "pull_request" -> PullRequestCase(l)
      [] OTHER -> Throw(<<"Unsupported event type: ", eventName>>)

prepareContext(context, claudeCommentId, defaultBranch, claudeBranch) ==
    LET l == ExtractLocals(context, defaultBranch, claudeBranch)
        commonFields == CommonFieldsOf(context, claudeCommentId, l)
        r == ParseEventData(context.eventName, l)
    IN  IF r.ok
        THEN Ok(commonFields @@ ("eventData" :> r.value))
        ELSE r

----------------------------------------------------------------------------
(* getEventTypeAndContext *)

\* A classifier that compares the action with "open" instead of "opened".
IssuesEventType_WrongLiteral(envVars) ==
    IF Get(envVars.eventData, "eventAction") = Def(<<"open">>)
    THEN Ok([ eventType |-> "ISSUE_CREATED",
              triggerContext |-> <<"new issue with '">> \o Render(envVars.triggerPhrase)
                                 \o <<"' in body">> ])
    ELSE Ok([ eventType |-> "ISSUE_ASSIGNED",
              triggerContext |-> <<"issue assigned to '">>
                                 \o Render(Get(envVars.eventData, "assigneeTrigger"))
                                 \o <<"'">> ])

\* Lines 319-329: case "issues"
IssuesEventType(envVars) ==
    IF Get(envVars.eventData, "eventAction") = Def(<<"opened">>)
    THEN Ok([ eventType |-> "ISSUE_CREATED",
              triggerContext |-> <<"new issue with '">> \o Render(envVars.triggerPhrase)
                                 \o <<"' in body">> ])
    ELSE Ok([ eventType |-> "ISSUE_ASSIGNED",
              triggerContext |-> <<"issue assigned to '">>
                                 \o Render(Get(envVars.eventData, "assigneeTrigger"))
                                 \o <<"'">> ])

getEventTypeAndContext(envVars) ==
    LET eventData == envVars.eventData
        phrase == Render(envVars.triggerPhrase)
    IN  CASE eventData.eventName = "pull_request_review_comment" ->
               Ok([ eventType |-> "REVIEW_COMMENT",
                    triggerContext |-> <<"PR review comment with '">> \o phrase \o <<"'">> ])
          [] eventData.eventName = "pull_request_review" ->
               Ok([ eventType |-> "PR_REVIEW",
                    triggerContext |-> <<"PR review with '">> \o phrase \o <<"'">> ])
          [] eventData.eventName = "issue_comment" ->
               Ok([ eventType |-> "GENERAL_COMMENT",
                    triggerContext |-> <<"issue comment with '">> \o phrase \o <<"'">> ])
          [] eventData.eventName = "issues" -> IssuesEventType(envVars)
          [] eventData.eventName = "pull_request" ->
               Ok([ eventType |-> "PULL_REQUEST",
                    triggerContext |->
                        IF Truthy(Get(eventData, "eventAction"))
                        THEN <<"pull request ">> \o Get(eventData, "eventAction").v
                        ELSE <<"pull request event">> ])
          [] OTHER -> Throw(<<"Unexpected event type">>)

----------------------------------------------------------------------------
(* stripHtmlComments of ../github/data/formatter: every <!-- ... --> span,  *)
(* from an opening marker to the first closing marker after it, is removed *)

\* index of the first "-->" in s at or after position i, 0 when there is none
RECURSIVE FirstClose(_, _)
FirstClose(s, i) ==
    IF i > Len(s) THEN 0
    ELSE IF s[i] = "-->" THEN i
    ELSE FirstClose(s, i + 1)

RECURSIVE stripHtmlComments(_)
stripHtmlComments(content) ==
    IF content = <<>> THEN <<>>
    ELSE IF Head(content) = "<!--" /\ FirstClose(content, 2) # 0
    THEN stripHtmlComments(SubSeq(content, FirstClose(content, 2) + 1, Len(content)))
    ELSE <<Head(content)>> \o stripHtmlComments(Tail(content))

----------------------------------------------------------------------------
(* generatePrompt: the rendered prompt as the record of its conditional    *)
(* fragments (the fixed text between them is left out; the sections built  *)
(* from githubData by the external formatters are not modelled)            *)

GITHUB_SERVER_URL == <<"https://github.com">>

\* a || b
OrElse(a, b) == IF Truthy(a) THEN a ELSE b

\* Lines 416-425: the <trigger_comment> block, Undefined when not rendered
TriggerCommentBlock(eventData) ==
    IF /\ eventData.eventName \in
              {"issue_comment", "pull_request_review_comment", "pull_request_review"}
       /\ Truthy(Get(eventData, "commentBody"))
    THEN Def(stripHtmlComments(eventData.commentBody.v))
    ELSE Undefined

\* Lines 433-459: the <comment_tool_info> block
CommentToolInfo(context) ==
    LET eventData == context.eventData
    IN  IF eventData.eventName = "pull_request_review_comment"
        THEN [ onlyTool |-> UpdatePRComment,
               exampleTool |-> UpdatePRComment,
               commentId |-> Render(OrElse(Get(eventData, "commentId"),
                                           context.claudeCommentId)) ]
        ELSE [ onlyTool |-> UpdateIssueComment,
               exampleTool |-> UpdateIssueComment,
               commentId |-> Render(context.claudeCommentId) ]

\* Line 473: "Update the comment using ... with each task completion."
TodoListTool(eventData) ==
    IF eventData.eventName = "pull_request_review_comment"
    THEN UpdatePRComment ELSE UpdateIssueComment

\* Line 503: "you MUST call ... to post your review", Undefined when not rendered
ReviewPostTool(eventData) ==
    IF eventData.isPR THEN Def(UpdateIssueComment) ELSE Undefined

\* Line 562: "Only update the existing comment using ... with comment_id: ..."
NotesTool(eventData) ==
    IF eventData.eventName = "pull_request_review_comment"
    THEN UpdatePRComment ELSE UpdateIssueComment

\* Line 563: "PR CRITICAL: ... you MUST post it by calling ...", Undefined when not rendered
PRCriticalTool(eventData) ==
    IF eventData.isPR THEN Def(UpdateIssueComment) ELSE Undefined

\* A link template that puts two dots between the branch names.
PRLink_TwoDots(context) ==
    GITHUB_SERVER_URL \o <<"/">> \o Render(context.repository)
    \o <<"/compare/">> \o Render(Get(context.eventData, "defaultBranch"))
    \o <<"..">> \o <<"<branch-name>">>
    \o <<"?quick_pull=1&title=<url-encoded-title>&body=<url-encoded-body>">>

\* Line 527: the "Create a PR" link template
PRLink(context) ==
    GITHUB_SERVER_URL \o <<"/">> \o Render(context.repository)
    \o <<"/compare/">> \o Render(Get(context.eventData, "defaultBranch"))
    \o <<"...">> \o <<"<branch-name>">>
    \o <<"?quick_pull=1&title=<url-encoded-title>&body=<url-encoded-body>">>

\* Lines 513-542: the push instructions of section B
PushInstructions(context) ==
    LET eventData == context.eventData
        claudeBranch == Get(eventData, "claudeBranch")
        defaultBranch == Get(eventData, "defaultBranch")
    IN  IF eventData.isPR /\ ~Truthy(claudeBranch)
        THEN [ mode |-> "existing-branch" ]
        ELSE IF Truthy(claudeBranch)
        THEN [ mode |-> "current-branch",
               branch |-> claudeBranch.v,
               prLink |-> PRLink(context),
               exampleCorrect |-> GITHUB_SERVER_URL \o <<"/">> \o Render(context.repository)
                                  \o <<"/compare/", "main", "...", "feature-branch">>,
               exampleIncorrect |-> GITHUB_SERVER_URL \o <<"/">> \o Render(context.repository)
                                    \o <<"/compare/", "main", "..", "feature-branch">>,
               targetBranch |-> Render(defaultBranch),
               branchName |-> Render(claudeBranch) ]
        ELSE [ mode |-> "current-branch", branch |-> <<"the PR branch">> ]

generatePrompt(context) ==
    LET eventData == context.eventData
        c == getEventTypeAndContext(context)
    IN  IF ~c.ok THEN c
        ELSE Ok(
          [ event_type |-> c.value.eventType,
            is_pr |-> IF eventData.isPR THEN <<"true">> ELSE <<"false">>,
            trigger_context |-> c.value.triggerContext,
            repository |-> Render(context.repository),
            number |-> IF eventData.isPR
                       THEN [ tag |-> "pr_number", v |-> Render(Get(eventData, "prNumber")) ]
                       ELSE [ tag |-> "issue_number",
                              v |-> Nullish(Get(eventData, "issueNumber"), <<>>).v ],
            claude_comment_id |-> Render(context.claudeCommentId),
            trigger_username |-> Nullish(Get(context, "triggerUsername"), <<"Unknown">>).v,
            trigger_phrase |-> Render(context.triggerPhrase),
            trigger_comment |-> TriggerCommentBlock(eventData),
            direct_prompt |-> IF Truthy(Get(context, "directPrompt"))
                              THEN Def(stripHtmlComments(context.directPrompt.v))
                              ELSE Undefined,
            comment_tool_info |-> CommentToolInfo(context),
            todoListTool |-> TodoListTool(eventData),
            reviewPostTool |-> ReviewPostTool(eventData),
            push |-> PushInstructions(context),
            notesTool |-> NotesTool(eventData),
            notesCommentId |-> Render(context.claudeCommentId),
            prCriticalTool |-> PRCriticalTool(eventData),
            customInstructions |-> Get(context, "customInstructions") ])

----------------------------------------------------------------------------
(* The inputs createPrompt is run on *)

EventNames ==
    {"pull_request_review_comment", "pull_request_review", "issue_comment",
     "issues", "pull_request", "push"}

BodyTokens == {"<!--", "-->", "text"}
Bodies == SeqsUpTo(BodyTokens, MaxBodyLen)

OverrideTokens == {"Bash", "Edit"}
Overrides == SeqsUpTo(OverrideTokens, MaxOverrideLen)

EntityNumber == 12
TriggerCommentId == 99
ClaudeCommentId == 12345
Login == Def(<<"octocat">>)

NoComment == [id |-> 0, body |-> Undefined, user |-> Undefined]
NoReview == [body |-> Undefined, user |-> Undefined]
NoIssue == [user |-> Undefined]

\* The payload of each webhook shape; a review body may be null.
Payloads ==
    {[shape |-> sh, comment |-> [id |-> TriggerCommentId, body |-> Def(b), user |-> Login],
      review |-> NoReview, issue |-> NoIssue]
        : sh \in {"issue_comment", "pull_request_review_comment"}, b \in Bodies}
    \cup
    {[shape |-> "pull_request_review", comment |-> NoComment,
      review |-> [body |-> b, user |-> Login], issue |-> NoIssue]
        : b \in {Undefined} \cup {Def(x) : x \in Bodies}}
    \cup
    {[shape |-> "issues", comment |-> NoComment, review |-> NoReview,
      issue |-> [user |-> Login]],
     [shape |-> "other", comment |-> NoComment, review |-> NoReview, issue |-> NoIssue]}

ShapeOf(eventName) ==
    IF eventName \in {"issue_comment", "pull_request_review",
                      "pull_request_review_comment", "issues"}
    THEN eventName ELSE "other"

BodyOf(p) ==
    IF p.shape = "pull_request_review" THEN p.review.body ELSE p.comment.body

\* Every body with the payload the event is delivered with; one body with the others.
PayloadsFor(eventName) ==
    {p \in Payloads : \/ p.shape = ShapeOf(eventName)
                      \/ BodyOf(p) \in {Undefined, Def(<<"text">>)}}

ActionsFor(eventName) ==
    IF eventName \in {"issues", "pull_request"}
    THEN {Undefined, Def(<<"opened">>), Def(<<"assigned">>), Def(<<"labeled">>)}
    ELSE {Def(<<"created">>)}

AssigneeTriggersFor(eventName) ==
    IF eventName = "issues"
    THEN {Undefined, Def(<<>>), Def(<<"alice">>)}
    ELSE {Undefined}

DefaultBranches == {Undefined, Def(<<>>), Def(<<"main">>)}
ClaudeBranches == {Undefined, Def(<<>>), Def(<<"feature-x">>)}
AllowedToolsInputs == {Undefined} \cup {Def(o) : o \in Overrides}

MakeRaw(en, ea, pr, pl, at, tools, db, cb) ==
    [ context |->
        [ repository |-> <<"o", "/", "r">>,
          eventName |-> en,
          eventAction |-> ea,
          isPR |-> pr,
          entityNumber |-> EntityNumber,
          payload |-> pl,
          inputs |-> [ triggerPhrase |-> Def(<<>>),
                       assigneeTrigger |-> at,
                       customInstructions |-> Def(<<>>),
                       allowedTools |-> tools,
                       disallowedTools |-> Def(<<>>),
                       directPrompt |-> Def(<<>>) ] ],
      claudeCommentId |-> ClaudeCommentId,
      defaultBranch |-> db,
      claudeBranch |-> cb ]

----------------------------------------------------------------------------
(* createPrompt *)

NoFile == [state |-> "absent"]

Init ==
    /\ \E en \in EventNames, pr \in BOOLEAN, tools \in AllowedToolsInputs,
          db \in DefaultBranches, cb \in ClaudeBranches :
          \E ea \in ActionsFor(en), at \in AssigneeTriggersFor(en),
             pl \in PayloadsFor(en) :
             raw = MakeRaw(en, ea, pr, pl, at, tools, db, cb)
    /\ pc = "prepareContext"
    /\ prepared = Undefined
    /\ prompt = Undefined
    /\ dir = FALSE
    /\ file = NoFile
    /\ env = EmptyObject
    /\ failed = Undefined
    /\ exitCode = Undefined

\* Lines 655-658: catch (error) { core.setFailed(...); process.exit(1) }
Catch(error) ==
    /\ failed' = Def(<<"Create prompt failed with error: ", "Error: ">> \o error)
    /\ exitCode' = Def(1)
    /\ pc' = "exited"

\* A createPrompt that creates the prompt directory before it validates.
PrepareContextStep_MkdirFirst ==
    /\ pc = "prepareContext"
    /\ dir' = TRUE
    /\ LET r == prepareContext(raw.context, NumberToString(raw.claudeCommentId),
                               raw.defaultBranch, raw.claudeBranch)
       IN  IF r.ok
           THEN /\ prepared' = Def(r.value)
                /\ pc' = "mkdir"
                /\ UNCHANGED <<failed, exitCode>>
           ELSE /\ Catch(r.error)
                /\ UNCHANGED prepared
    /\ UNCHANGED <<raw, prompt, file, env>>

\* Lines 624-629
PrepareContextStep ==
    /\ pc = "prepareContext"
    /\ LET r == prepareContext(raw.context, NumberToString(raw.claudeCommentId),
                               raw.defaultBranch, raw.claudeBranch)
       IN  IF r.ok
           THEN /\ prepared' = Def(r.value)
                /\ pc' = "mkdir"
                /\ UNCHANGED <<failed, exitCode>>
           ELSE /\ Catch(r.error)
                /\ UNCHANGED prepared
    /\ UNCHANGED <<raw, prompt, dir, file, env>>

\* Line 631: await mkdir("/tmp/claude-prompts", { recursive: true })
MkdirStep ==
    /\ pc = "mkdir"
    /\ \E outcome \in {"ok", "EACCES"} :
          IF outcome = "ok"
          THEN /\ dir' = TRUE
               /\ pc' = "generatePrompt"
               /\ UNCHANGED <<failed, exitCode>>
          ELSE /\ Catch(<<outcome, ": mkdir">>)
               /\ UNCHANGED dir
    /\ UNCHANGED <<raw, prepared, prompt, file, env>>

\* Lines 634-639
GeneratePromptStep ==
    /\ pc = "generatePrompt"
    /\ LET r == generatePrompt(prepared.v)
       IN  IF r.ok
           THEN /\ prompt' = Def(r.value)
                /\ pc' = "writeFile"
                /\ UNCHANGED <<failed, exitCode>>
           ELSE /\ Catch(r.error)
                /\ UNCHANGED prompt
    /\ UNCHANGED <<raw, prepared, dir, file, env>>

\* Line 642: await writeFile(path, promptContent); a write that fails may have
\* created or truncated the file already.
WriteFileStep ==
    /\ pc = "writeFile"
    /\ \E outcome \in {"ok", "EACCES", "ENOSPC"} :
          IF outcome = "ok"
          THEN /\ file' = [state |-> "complete", content |-> prompt.v]
               /\ pc' = "exportAllowed"
               /\ UNCHANGED <<failed, exitCode>>
          ELSE /\ file' = IF outcome = "ENOSPC" THEN [state |-> "partial"] ELSE file
               /\ Catch(<<outcome, ": writeFile">>)
    /\ UNCHANGED <<raw, prepared, prompt, dir, env>>

\* Lines 645-648 and 653
ExportAllowedStep ==
    /\ pc = "exportAllowed"
    /\ \E outcome \in {"ok", "throws"} :
          IF outcome = "ok"
          THEN /\ env' = ("ALLOWED_TOOLS" :>
                            buildAllowedToolsString(prepared.v.eventData,
                                                    Get(prepared.v, "allowedTools")))
                         @@ env
               /\ pc' = "exportDisallowed"
               /\ UNCHANGED <<failed, exitCode>>
          ELSE /\ Catch(<<"Unable to export ALLOWED_TOOLS">>)
               /\ UNCHANGED env
    /\ UNCHANGED <<raw, prepared, prompt, dir, file>>

\* Lines 649-651 and 654
ExportDisallowedStep ==
    /\ pc = "exportDisallowed"
    /\ \E outcome \in {"ok", "throws"} :
          IF outcome = "ok"
          THEN /\ env' = ("DISALLOWED_TOOLS" :>
                            buildDisallowedToolsString(Get(prepared.v, "disallowedTools")))
                         @@ env
               /\ pc' = "done"
               /\ UNCHANGED <<failed, exitCode>>
          ELSE /\ Catch(<<"Unable to export DISALLOWED_TOOLS">>)
               /\ UNCHANGED env
    /\ UNCHANGED <<raw, prepared, prompt, dir, file>>

Next ==
    \/ PrepareContextStep
    \/ MkdirStep
    \/ GeneratePromptStep
    \/ WriteFileStep
    \/ ExportAllowedStep
    \/ ExportDisallowedStep

Spec == Init /\ [][Next]_vars

TypeOK ==
    /\ pc \in {"prepareContext", "mkdir", "generatePrompt", "writeFile",
               "exportAllowed", "exportDisallowed", "done", "exited"}
    /\ dir \in BOOLEAN
    /\ file.state \in {"absent", "partial", "complete"}

----------------------------------------------------------------------------
(* Properties *)

ctx == raw.context

\* prepareContext has returned or thrown
Returned == pc # "prepareContext"

\* the message setFailed reports for an error thrown with this text
Reported(error) == Def(<<"Create prompt failed with error: ", "Error: ">> \o error)

\* the payload is the one of a pull_request_review webhook
ReviewPayload == ctx.payload.shape = "pull_request_review"

\* C1: prepareContext on a pull_request_review event with isPR true and an
\* empty (or null) review body succeeds and returns the pull_request_review
\* variant whose commentBody is the empty string.
C1_EmptyReviewBodyAccepted ==
    ( /\ Returned
      /\ ctx.eventName = "pull_request_review"
      /\ ctx.isPR
      /\ ReviewPayload
      /\ ~Truthy(ctx.payload.review.body) )
    => ( /\ prepared.def
         /\ prepared.v.eventData.eventName = "pull_request_review"
         /\ Get(prepared.v.eventData, "commentBody") = Def(<<>>) )

\* prepareContext throws on the inputs of this run
PrepareThrows ==
    ~prepareContext(ctx, NumberToString(raw.claudeCommentId),
                    raw.defaultBranch, raw.claudeBranch).ok

\* C2: in every run where prepareContext throws, no prompt is generated, the
\* prompt directory is not created, the prompt file is not written, neither
\* ALLOWED_TOOLS nor DISALLOWED_TOOLS is exported, and the run ends with the
\* failure reported through setFailed and exit status 1.
C2_ValidationFailsBeforeSideEffects ==
    PrepareThrows =>
        /\ pc \in {"prepareContext", "exited"}
        /\ prepared = Undefined
        /\ prompt = Undefined
        /\ dir = FALSE
        /\ file = NoFile
        /\ DOMAIN env = {}
        /\ pc = "exited" => (failed.def /\ exitCode = Def(1))
        /\ pc = "prepareContext" => (~failed.def /\ ~exitCode.def)

C2_Witness == PrepareThrows /\ pc = "exited" /\ failed.def /\ exitCode = Def(1)

\* C3: a run of createPrompt that ends in the failure path (setFailed and
\* exit 1) has not written the prompt file; the file is written only in runs
\* that finish without error.
C3_NoPromptFileAfterFailure ==
    (pc = "exited" \/ failed.def) => file = NoFile

HasNonEmpty(o, k) == k \in DOMAIN o /\ Truthy(o[k])

PRKinds == {"pull_request", "pull_request_review", "pull_request_review_comment"}

\* The keys each EventData variant always carries, and those it may carry.
VariantRequiredKeys(eventName, eventAction, isPR) ==
    CASE eventName \in {"pull_request_review_comment", "pull_request_review"} ->
           {"eventName", "isPR", "prNumber", "commentBody"}
      [] eventName = "issue_comment" /\ isPR ->
           {"eventName", "commentId", "isPR", "prNumber", "commentBody"}
      [] eventName = "issue_comment" /\ ~isPR ->
           {"eventName", "commentId", "isPR", "claudeBranch", "defaultBranch",
            "issueNumber", "commentBody"}
      [] eventName = "issues" /\ eventAction = Def(<<"assigned">>) ->
           {"eventName", "eventAction", "isPR", "issueNumber", "defaultBranch",
            "claudeBranch", "assigneeTrigger"}
      [] eventName = "issues" /\ eventAction = Def(<<"opened">>) ->
           {"eventName", "eventAction", "isPR", "issueNumber", "defaultBranch",
            "claudeBranch"}
      [] eventName = "pull_request" ->
           {"eventName", "eventAction", "isPR", "prNumber"}
      [] OTHER -> {"no such variant"}

VariantOptionalKeys(eventName, isPR) ==
    CASE eventName = "pull_request_review_comment" ->
           {"commentId", "claudeBranch", "defaultBranch"}
      [] eventName \in {"pull_request_review", "pull_request"} ->
           {"claudeBranch", "defaultBranch"}
      [] eventName = "issue_comment" /\ isPR -> {"claudeBranch", "defaultBranch"}
      [] OTHER -> {}

\* C4: every successful prepareContext returns the one EventData variant
\* selected by (eventName, eventAction, isPR): its eventName and isPR are the
\* raw ones (isPR true for the three pull-request kinds and PR-form
\* issue_comment, false for issues and issue-form issue_comment) and every
\* field the variant requires is present and non-empty.
C4_VariantDeterminedByEvent ==
    prepared.def =>
        LET ed == prepared.v.eventData
            required == VariantRequiredKeys(ctx.eventName, ctx.eventAction, ctx.isPR)
        IN  /\ ed.eventName = ctx.eventName
            /\ ed.isPR = ctx.isPR
            /\ ed.isPR = (\/ ctx.eventName \in PRKinds
                          \/ (ctx.eventName = "issue_comment" /\ ctx.isPR))
            /\ required \subseteq DOMAIN ed
            /\ DOMAIN ed \subseteq
                   required \cup VariantOptionalKeys(ctx.eventName, ctx.isPR)
            /\ ctx.eventName = "issues" => ed.eventAction = ctx.eventAction
            /\ ed.isPR => HasNonEmpty(ed, "prNumber")
            /\ ~ed.isPR => /\ HasNonEmpty(ed, "issueNumber")
                           /\ HasNonEmpty(ed, "defaultBranch")
                           /\ HasNonEmpty(ed, "claudeBranch")
            /\ ctx.eventName = "issue_comment" => HasNonEmpty(ed, "commentId")
            /\ (ctx.eventName = "issues" /\ ctx.eventAction = Def(<<"assigned">>))
                   => HasNonEmpty(ed, "assigneeTrigger")

C4_Witness ==
    /\ prepared.def
    /\ pc = "done"
    /\ ctx.eventName = "issue_comment"
    /\ ~ctx.isPR
    /\ prepared.v.eventData.issueNumber = Def(<<"1", "2">>)

\* the webhook payload carries a comment object
HasComment ==
    ctx.payload.shape \in {"issue_comment", "pull_request_review_comment"}

\* the first field an issue-form issue_comment lacks, <<>> when it lacks none
C5_FirstMissing ==
    IF ~HasComment
    THEN <<"COMMENT_ID is required for issue_comment event">>
    ELSE IF ~Truthy(ctx.payload.comment.body)
    THEN <<"COMMENT_BODY is required for issue_comment event">>
    ELSE IF ~Truthy(raw.claudeBranch)
    THEN <<"CLAUDE_BRANCH is required for issue_comment event">>
    ELSE IF ~Truthy(raw.defaultBranch)
    THEN <<"DEFAULT_BRANCH is required for issue_comment event">>
    ELSE <<>>

\* C5: for an issue_comment event on a non-PR target prepareContext succeeds
\* iff comment id, a non-empty comment body, working branch and default
\* branch are all present; otherwise it fails with the error naming the first
\* missing field in the order COMMENT_ID, COMMENT_BODY, CLAUDE_BRANCH,
\* DEFAULT_BRANCH (the issue number is always there).
C5_IssueCommentOnIssueRequiresAll ==
    (Returned /\ ctx.eventName = "issue_comment" /\ ~ctx.isPR) =>
        IF C5_FirstMissing = <<>>
        THEN /\ prepared.def
             /\ prepared.v.eventData.eventName = "issue_comment"
             /\ Truthy(prepared.v.eventData.commentBody)
        ELSE /\ ~prepared.def
             /\ failed = Reported(C5_FirstMissing)

\* an empty-string comment body, everything else present, is refused
C5_Witness ==
    /\ ctx.eventName = "issue_comment"
    /\ ~ctx.isPR
    /\ HasComment
    /\ ctx.payload.comment.body = Def(<<>>)
    /\ Truthy(raw.claudeBranch)
    /\ Truthy(raw.defaultBranch)
    /\ failed = Reported(<<"COMMENT_BODY is required for issue_comment event">>)

\* C6: for an issues event with action assigned whose other required fields
\* are present, prepareContext fails when the assigneeTrigger input is absent
\* or empty, and otherwise succeeds with the variant's assigneeTrigger equal
\* to the input.
C6_AssigneeTriggerFromInputs ==
    ( /\ Returned
      /\ ctx.eventName = "issues"
      /\ ctx.eventAction = Def(<<"assigned">>)
      /\ ~ctx.isPR
      /\ Truthy(raw.defaultBranch)
      /\ Truthy(raw.claudeBranch) )
    => IF Truthy(ctx.inputs.assigneeTrigger)
       THEN /\ prepared.def
            /\ Get(prepared.v.eventData, "assigneeTrigger") = ctx.inputs.assigneeTrigger
       ELSE /\ ~prepared.def
            /\ failed = Reported(<<"ASSIGNEE_TRIGGER is required for issue assigned event">>)

\* the trigger is the input "alice" although the payload's issue is octocat's
C6_Witness ==
    /\ prepared.def
    /\ ctx.eventName = "issues"
    /\ ctx.eventAction = Def(<<"assigned">>)
    /\ ctx.payload.shape = "issues"
    /\ ctx.payload.issue.user = Def(<<"octocat">>)
    /\ prepared.v.eventData.assigneeTrigger = Def(<<"alice">>)

\* s is the eight base tools in order, one comment-update tool chosen by the
\* event, and then the override, verbatim, when it is a non-empty string
C7_Reference(s, eventName, override) ==
    LET n == Len(BASE_ALLOWED_TOOLS)
        head == 2 * n + 1
    IN  /\ Len(s) >= head
        /\ \A i \in 1..n : s[2 * i - 1] = BASE_ALLOWED_TOOLS[i] /\ s[2 * i] = ","
        /\ s[head] = IF eventName = "pull_request_review_comment"
                     THEN UpdatePRComment ELSE UpdateIssueComment
        /\ Cardinality({i \in 1..head : s[i] \in {UpdatePRComment, UpdateIssueComment}}) = 1
        /\ IF override.def /\ override.v # <<>>
           THEN /\ Len(s) = head + 1 + Len(override.v)
                /\ s[head + 1] = ","
                /\ SubSeq(s, head + 2, Len(s)) = override.v
           ELSE Len(s) = head

\* C7: buildAllowedToolsString(eventData, override) is the eight base tools in
\* order, then exactly one comment-update tool (the pull-request one iff the
\* event is pull_request_review_comment), comma-joined, and then, only for a
\* non-empty override, a comma and the override verbatim.
C7_AllowedToolsMatchReference ==
    /\ "ALLOWED_TOOLS" \in DOMAIN env =>
           C7_Reference(env["ALLOWED_TOOLS"], ctx.eventName, ctx.inputs.allowedTools)
    /\ prepared.def =>
           \A o \in AllowedToolsInputs :
               C7_Reference(buildAllowedToolsString(prepared.v.eventData, o),
                            ctx.eventName, o)

\* an inline review comment with override "Bash": the string ends in ",Bash"
C7_Witness ==
    /\ "ALLOWED_TOOLS" \in DOMAIN env
    /\ ctx.eventName = "pull_request_review_comment"
    /\ ctx.inputs.allowedTools = Def(<<"Bash">>)
    /\ LET s == env["ALLOWED_TOOLS"]
       IN  /\ SubSeq(s, Len(s) - 1, Len(s)) = <<",", "Bash">>
           /\ \E i \in 1..Len(s) : s[i] = UpdatePRComment
           /\ \A i \in 1..Len(s) : s[i] # UpdateIssueComment

CommentUpdateTools == {UpdatePRComment, UpdateIssueComment}

\* the comment-update tools a rendered prompt tells the agent to call
NamedUpdateTools(p) ==
    {p.comment_tool_info.onlyTool, p.comment_tool_info.exampleTool,
     p.todoListTool, p.notesTool}
    \cup (IF p.reviewPostTool.def THEN {p.reviewPostTool.v} ELSE {})
    \cup (IF p.prCriticalTool.def THEN {p.prCriticalTool.v} ELSE {})

\* the comment-update tools an allowed-tools string grants
GrantedUpdateTools(s) == {s[i] : i \in 1..Len(s)} \cap CommentUpdateTools

\* C8: with no caller tool override, every comment-update tool the rendered
\* prompt names is the one comment-update capability of the allowed-tools
\* string built for the same eventData.
C8_PromptNamesOnlyGrantedTool ==
    (prompt.def /\ ~Truthy(ctx.inputs.allowedTools)) =>
        NamedUpdateTools(prompt.v)
            \subseteq GrantedUpdateTools(
                          buildAllowedToolsString(prepared.v.eventData, Undefined))

\* the static (event, action) -> category table
C9_Table(eventName, eventAction) ==
    CASE eventName = "pull_request_review_comment" -> "REVIEW_COMMENT"
      [] eventName = "pull_request_review" -> "PR_REVIEW"
      [] eventName = "issue_comment" -> "GENERAL_COMMENT"
      [] eventName = "issues" /\ eventAction = Def(<<"opened">>) -> "ISSUE_CREATED"
      [] eventName = "issues" /\ eventAction = Def(<<"assigned">>) -> "ISSUE_ASSIGNED"
      [] eventName = "pull_request" -> "PULL_REQUEST"
      [] OTHER -> "none"

\* C9: on every context prepareContext returns, getEventTypeAndContext does
\* not throw and yields the category of the static table; the prompt carries
\* that category and no run fails with 'Unexpected event type'.
C9_ClassificationTotal ==
    /\ prepared.def =>
           LET c == getEventTypeAndContext(prepared.v)
           IN  /\ c.ok
               /\ c.value.eventType = C9_Table(ctx.eventName, ctx.eventAction)
    /\ prompt.def => prompt.v.event_type = C9_Table(ctx.eventName, ctx.eventAction)
    /\ failed # Reported(<<"Unexpected event type">>)
    /\ (pc \in {"writeFile", "exportAllowed", "exportDisallowed", "done"}) => prompt.def

C9_Witness ==
    /\ prompt.def
    /\ ctx.eventName = "issues"
    /\ ctx.eventAction = Def(<<"opened">>)
    /\ prompt.v.event_type = "ISSUE_CREATED"

CommentEvents ==
    {"issue_comment", "pull_request_review_comment", "pull_request_review"}

\* C10: the <trigger_comment> block is rendered only for the three comment and
\* review events and only when the body is non-empty after HTML-comment
\* stripping, and its content is the stripped body.
C10_TriggerCommentOnlyIfStrippedNonEmpty ==
    prompt.def =>
        LET ed == prepared.v.eventData
            body == Get(ed, "commentBody")
            block == prompt.v.trigger_comment
        IN  /\ block.def =>
                  /\ ed.eventName \in CommentEvents
                  /\ body.def
                  /\ stripHtmlComments(body.v) # <<>>
                  /\ block.v = stripHtmlComments(body.v)

\* sub occurs in s as a run of consecutive tokens
Contains(s, sub) ==
    \E i \in 0..(Len(s) - Len(sub)) : SubSeq(s, i + 1, i + Len(sub)) = sub

\* the prompt renders the PR-creation link
LinkRendered == prompt.def /\ "prLink" \in DOMAIN prompt.v.push

\* the text of lines 527-534 that mentions branches: the link, the two
\* examples, the target-branch line and the branch-name line
LinkText ==
    LET push == prompt.v.push
    IN  push.prLink \o <<" ">> \o push.exampleCorrect \o <<" ">>
        \o push.exampleIncorrect \o <<" ">> \o push.targetBranch \o <<" ">>
        \o push.branchName

\* C11 as stated: a rendered PR-creation link is server URL + '/' + repository
\* + '/compare/' + default branch + '...' + working branch.
C11_LinkEndsInWorkingBranch ==
    LinkRendered =>
        Contains(LinkText,
                 GITHUB_SERVER_URL \o <<"/">> \o ctx.repository \o <<"/compare/">>
                 \o Render(raw.defaultBranch) \o <<"...">> \o raw.claudeBranch.v)

\* C11 (amended): a rendered PR-creation link is server URL + '/' + repository
\* + '/compare/' + the interpolated default branch + '...' + the literal
\* placeholder '<branch-name>' + the query template, with exactly three dots
\* between the branch names; the working branch is given by the separate
\* branch-name line, and for default branch main and working branch feature-x
\* the text has no 'main..feature-x'.
C11_LinkTemplateThreeDots ==
    LinkRendered =>
        LET push == prompt.v.push
            base == Render(Get(prepared.v.eventData, "defaultBranch"))
        IN  /\ Truthy(raw.claudeBranch)
            /\ push.prLink =
                   GITHUB_SERVER_URL \o <<"/">> \o ctx.repository \o <<"/compare/">>
                   \o base \o <<"...", "<branch-name>">>
                   \o <<"?quick_pull=1&title=<url-encoded-title>&body=<url-encoded-body>">>
            /\ ~Contains(push.prLink, <<"..">>)
            /\ push.branchName = raw.claudeBranch.v
            /\ (base = <<"main">> /\ raw.claudeBranch.v = <<"feature-x">>)
                   => ~Contains(LinkText, <<"main", "..", "feature-x">>)

C11_Witness ==
    /\ LinkRendered
    /\ raw.defaultBranch = Def(<<"main">>)
    /\ raw.claudeBranch = Def(<<"feature-x">>)
    /\ Contains(LinkText, <<"o", "/", "r", "/compare/", "main", "...", "<branch-name>">>)
    /\ ~Contains(LinkText, <<"main", "..", "feature-x">>)

OptionalCommonKeys ==
    {"triggerUsername", "customInstructions", "allowedTools", "disallowedTools",
     "directPrompt", "claudeBranch"}

OptionalEventKeys == {"claudeBranch", "defaultBranch", "commentId", "eventAction"}

\* C12: in every PreparedContext an optional field is a key of the record only
\* when its source value is present: none of the optional keys of the common
\* fields or of the eventData variant carries an undefined or empty value.
C12_NoEmptyPlaceholders ==
    prepared.def =>
        LET ed == prepared.v.eventData
        IN  /\ \A k \in DOMAIN prepared.v \cap OptionalCommonKeys : Truthy(prepared.v[k])
            /\ \A k \in DOMAIN ed \cap OptionalEventKeys : Truthy(ed[k])

\* C13: no PreparedContext has a working branch while the default branch is
\* absent, so the rendered PR-creation link and target-branch line never
\* carry 'undefined' as the base branch.
C13_DefaultBranchDefinedInLink ==
    /\ prepared.def =>
           ( Truthy(Get(prepared.v.eventData, "claudeBranch"))
             => Truthy(Get(prepared.v.eventData, "defaultBranch")) )
    /\ LinkRendered =>
           /\ prompt.v.push.targetBranch \notin {<<"undefined">>, <<>>}
           /\ ~Contains(prompt.v.push.prLink, <<"/compare/", "undefined">>)

\* C14: the comment id of the comment_tool_info usage example is the agent's
\* own comment id, the one the 'Only update the existing comment' note gives.
C14_ExampleUpdatesOwnComment ==
    prompt.def =>
        /\ prompt.v.notesCommentId = NumberToString(raw.claudeCommentId)
        /\ prompt.v.comment_tool_info.commentId = prompt.v.notesCommentId

\* the IS_PR error of each pull-request event
C15_MustBeTrue(eventName) ==
    CASE eventName = "pull_request" ->
           <<"IS_PR must be true for pull_request event">>
      [] eventName = "pull_request_review" ->
           <<"IS_PR must be true for pull_request_review event">>
      [] eventName = "pull_request_review_comment" ->
           <<"IS_PR must be true for pull_request_review_comment event">>

\* C15: a pull_request, pull_request_review or pull_request_review_comment
\* event with isPR false fails with 'IS_PR must be true for <event> event',
\* and an issues event with an action and isPR true fails with 'IS_PR must be
\* false for issues event'.
C15_IsPRContradictionNamed ==
    Returned =>
        /\ (ctx.eventName \in PRKinds /\ ~ctx.isPR)
               => (~prepared.def /\ failed = Reported(C15_MustBeTrue(ctx.eventName)))
        /\ (ctx.eventName = "issues" /\ Truthy(ctx.eventAction) /\ ctx.isPR)
               => ( /\ ~prepared.def
                    /\ failed = Reported(<<"IS_PR must be false for issues event">>) )

====
